---- MODULE Spec2Model ----
(***************************************************************************)
(* The transaction session manager, the transactional connection pool and  *)
(* the operation facade of src/src/tikv.rs, as a state machine.            *)
(*                                                                         *)
(* A call is one invocation of a do_async_* function.  Each action is one  *)
(* step of a call: a lock-protected operation on one of the process-wide   *)
(* statics (PD_ADDRS, GLOBAL_CLIENT, TIKV_TRANSACTIONS, TIKV_TNX_CONN_POOL)*)
(* or the completion of one awaited call of the store's client library.    *)
(* A completed remote call either succeeds or fails; `?` in the source     *)
(* then returns the error and drops the locals of the call.                *)
(*                                                                         *)
(* The store is the black box of the client library: a transaction reads   *)
(* the snapshot taken when it began overlaid with its own buffered writes, *)
(* and commit applies the buffer to the store.  Write conflicts are not    *)
(* modelled separately: any remote call may fail.                          *)
(***************************************************************************)
EXTENDS Integers, Sequences, FiniteSets, TLC

\* ---------------------------------------------------------------- bounds
MaxEstablish == 2
MaxBatch == 3
MaxKeyLen == 2
MaxWrites == 2

\* Two sessions, and the two callers that issue their operations.
Sessions == {1, 2}
Procs == {1, 2}
Vals == {"v1", "v2"}
Addrs == {"pd1"}

\* ------------------------------------------------------ key codec (bytes)
TagRaw == 82
TagHash == 72
Sep == 95

KeyA == <<97>>
KeyB == <<98>>
CoreKeys == {KeyA}

DataTypeRaw == "Raw"
DataTypeHash == "Hash"

get_prefix(dt) == IF dt = DataTypeRaw THEN TagRaw ELSE TagHash

encode_key(dt, key) == <<get_prefix(dt), Sep>> \o key

decode_key(bytes) == SubSeq(bytes, 3, Len(bytes))

encode_keys(dt, keys) == [i \in 1..Len(keys) |-> encode_key(dt, keys[i])]

\* the bound above every key of the kind
encode_endkey(dt) == <<get_prefix(dt), Sep + 1>>

encode_hash_key(key, field) == <<TagHash, Sep>> \o key \o <<Sep>> \o field

encode_hash_prefix(key) == <<TagHash, Sep>> \o key \o <<Sep>>

encode_hash_prefix_end(key) == <<TagHash, Sep>> \o key \o <<Sep + 1>>

decode_hash_field(bytes, key) == SubSeq(bytes, Len(key) + 4, Len(bytes))

\* the order of byte strings in the store
RECURSIVE LexLess(_, _)
LexLess(a, b) ==
    IF a = <<>> THEN b # <<>>
    ELSE IF b = <<>> THEN FALSE
    ELSE IF a[1] # b[1] THEN a[1] < b[1]
    ELSE LexLess(Tail(a), Tail(b))

LexLeq(a, b) == a = b \/ LexLess(a, b)

\* the byte strings of S in ascending order
RECURSIVE Ascending(_)
Ascending(S) ==
    IF S = {} THEN <<>>
    ELSE LET lo == CHOOSE x \in S : \A y \in S : LexLeq(x, y)
         IN <<lo>> \o Ascending(S \ {lo})

\* ------------------------------------------------------------- the state
VARIABLES
    pd_addrs,       \* PD_ADDRS: <<>> (None) or <<addr>>
    global_client,  \* GLOBAL_CLIENT: <<>> (None) or <<addr>>
    txns,           \* TIKV_TRANSACTIONS: session id -> parked handle
    pool,           \* TIKV_TNX_CONN_POOL: list of idle connections
    store,          \* committed content of the store: encoded key -> value
    calls,          \* the call each caller has in flight
    established,    \* number of TransactionClient::new that succeeded
    first_begin,    \* outcome of the first begin_with_options: none/ok/failed
    closed,         \* a close has succeeded and no connect has since
    probe           \* the arguments and results of one use of the key codec

vars == <<pd_addrs, global_client, txns, pool, store, calls, established,
          first_begin, closed, probe>>

\* ------------------------------------------------------------- integers
\* A u64 as its two 32-bit words: the value is hi * 2^32 + lo.
U64(hi, lo) == [hi |-> hi, lo |-> lo]

\* `limit as u32` keeps the low word.
as_u32(n) == n.lo

\* ------------------------------------------------------- finite functions
MapPut(f, k, v) == [x \in (DOMAIN f) \cup {k} |-> IF x = k THEN v ELSE f[x]]

MapDel(f, k) == [x \in (DOMAIN f) \ {k} |-> f[x]]

EmptyMap == [x \in {} |-> "v1"]

\* ------------------------------------------------- the store's client API
Del == "del"

\* Transaction::get: the buffered write if any, else the snapshot.
txn_get(h, ek) ==
    IF ek \in DOMAIN h.buf
    THEN (IF h.buf[ek] = Del THEN <<>> ELSE <<h.buf[ek]>>)
    ELSE (IF ek \in DOMAIN h.snap THEN <<h.snap[ek]>> ELSE <<>>)

txn_put(h, ek, v) == [h EXCEPT !.buf = MapPut(@, ek, v)]

txn_delete(h, ek) == [h EXCEPT !.buf = MapPut(@, ek, Del)]

\* what the transaction sees: the snapshot overlaid with its buffer
txn_keys(h) ==
    {ek \in (DOMAIN h.snap) \cup (DOMAIN h.buf) : txn_get(h, ek) # <<>>}

\* Transaction::scan(lo..hi, limit): the pairs of the keys in [lo, hi), in
\* ascending key order, at most limit of them
txn_scan(h, lo, hi, limit) ==
    LET ks == Ascending({ek \in txn_keys(h) : LexLeq(lo, ek) /\ LexLess(ek, hi)})
        n == IF limit < Len(ks) THEN limit ELSE Len(ks)
    IN [i \in 1..n |-> <<ks[i], txn_get(h, ks[i])[1]>>]

\* Transaction::batch_get(keys): the pairs of the keys that exist, in any order
txn_batch_get(h, ekeys) ==
    LET found == {ekeys[i] : i \in 1..Len(ekeys)} \cap txn_keys(h)
    IN {ps \in [1..Cardinality(found) -> found \X Vals] :
           /\ \A i \in DOMAIN ps : ps[i][2] = txn_get(h, ps[i][1])[1]
           /\ \A i, j \in DOMAIN ps : i # j => ps[i][1] # ps[j][1]}

\* Transaction::commit: the buffered writes become the committed content.
txn_commit(st, h) ==
    [ek \in {x \in (DOMAIN st) \cup (DOMAIN h.buf) :
                 ~(x \in DOMAIN h.buf /\ h.buf[x] = Del)} |->
        IF ek \in DOMAIN h.buf THEN h.buf[ek] ELSE st[ek]]

\* ------------------------------------------------------------- registry
\* has_txn that never finds the entry
has_txn_never(reg, cid) == FALSE

has_txn(reg, cid) == cid \in DOMAIN reg

put_txn(reg, cid, txn) == MapPut(reg, cid, txn)

get_txn(reg, cid) == MapDel(reg, cid)

\* ---------------------------------------------------------------- locks
\* The locks of the four statics.  A step that uses a static takes the lock,
\* does its work and drops the guard, a temporary of the statement or a local
\* of a function that does not await, before the step ends.  calls[p].guards
\* is the set of guards call p holds between its steps.
PdAddrsLock == "PD_ADDRS"
GlobalClientLock == "GLOBAL_CLIENT"
RegistryLock == "TIKV_TRANSACTIONS"
PoolLock == "TIKV_TNX_CONN_POOL"

Read == "read"
Write == "write"

\* The lock can be taken by p: no other call holds a guard of it, except
\* that readers of an RwLock share it.  The pool's Mutex is taken as Write.
Free(p, lock, mode) ==
    \A q \in Procs \ {p} :
        \A g \in calls[q].guards :
            g[1] = lock => (mode = Read /\ g[2] = Read)

\* ---------------------------------------------------------------- calls
NoRes == [st |-> "none", out |-> <<>>]
Ok == [st |-> "OK", out |-> <<>>]
Err(e) == [st |-> "Err", out |-> <<e>>]
NotConnected == "TiKV Not connected"
AlreadyStarted == "Transaction already started"
NotStarted == "Transaction not started"
Remote == "remote"

Idle == [verb |-> "idle", pc |-> "idle", cid |-> 0, key |-> <<>>, val |-> "",
         field |-> <<>>, keys |-> <<>>, end_key |-> <<>>, limit |-> U64(0, 0),
         in_txn |-> FALSE, txn |-> <<>>, conn |-> <<>>, addrs |-> <<>>,
         acc |-> <<>>, res |-> NoRes, fate |-> "none", parked |-> FALSE,
         after_close |-> FALSE, taken |-> FALSE, guards |-> {},
         kvs |-> <<>>, i |-> 0]

Set(p, c) == calls' = [calls EXCEPT ![p] = c]

\* The call returns: its locals are dropped.  fate records what became of
\* the transaction handle the call had obtained, if any.
Return(c, res, fate) ==
    [c EXCEPT !.pc = "done", !.res = res, !.fate = fate,
              !.txn = <<>>, !.conn = <<>>, !.addrs = <<>>, !.acc = <<>>,
              !.guards = {}, !.i = 0]

\* The protocol layer's discipline: one caller issues the operations of one
\* session one after the other.
Serial(p, cid) == \A q \in Procs \ {p} : calls[q].cid # cid

\* parked and after_close record the state in which the call was issued.
New(verb, cid) ==
    [Idle EXCEPT !.verb = verb, !.cid = cid, !.parked = cid \in DOMAIN txns,
                 !.after_close = closed]

NoProbe == [done |-> FALSE]

Handle(cid, conn) ==
    [owner |-> cid, snap |-> store, buf |-> EmptyMap, addr |-> conn.addr]

Init ==
    /\ pd_addrs = <<>>
    /\ global_client = <<>>
    /\ txns = EmptyMap
    /\ pool = <<>>
    /\ store = EmptyMap
    /\ calls = [p \in Procs |-> Idle]
    /\ established = 0
    /\ first_begin = "none"
    /\ closed = FALSE
    /\ probe = NoProbe

\* ------------------------------------------------------ connect and close
\* do_async_connect up to RawClient::new(addrs).await
do_async_connect(p, a) ==
    /\ calls[p] = Idle
    /\ Set(p, [New("connect", 0) EXCEPT !.addrs = <<a>>, !.pc = "RawClient_new"])
    /\ UNCHANGED <<probe, pd_addrs, global_client, txns, pool, store, established,
                   first_begin, closed>>

\* RawClient::new returns; on success PD_ADDRS is replaced
RawClient_new(p) ==
    /\ calls[p].pc = "RawClient_new"
    /\ \E ok \in BOOLEAN :
        IF ok
        THEN /\ Free(p, PdAddrsLock, Write)
             /\ pd_addrs' = calls[p].addrs
             /\ Set(p, [calls[p] EXCEPT !.pc = "connect_client"])
        ELSE /\ pd_addrs' = pd_addrs
             /\ Set(p, Return(calls[p], Err(Remote), "none"))
    /\ UNCHANGED <<probe, global_client, txns, pool, store, established, first_begin,
                   closed>>

\* GLOBAL_CLIENT is replaced and connect answers OK
connect_client(p) ==
    /\ calls[p].pc = "connect_client"
    /\ Free(p, GlobalClientLock, Write)
    /\ global_client' = calls[p].addrs
    /\ closed' = FALSE
    /\ calls' = [q \in Procs |->
                    IF q = p THEN Return(calls[p], Ok, "none")
                    ELSE IF calls[q].pc = "done" THEN calls[q]
                    ELSE [calls[q] EXCEPT !.after_close = FALSE]]
    /\ UNCHANGED <<probe, pd_addrs, txns, pool, store, established, first_begin>>

\* do_async_close: get_client()?
do_async_close(p) ==
    /\ calls[p] = Idle
    /\ Free(p, GlobalClientLock, Read)
    /\ Set(p, IF global_client = <<>>
              THEN Return(New("close", 0), Err(NotConnected), "none")
              ELSE [New("close", 0) EXCEPT !.pc = "close_client"])
    /\ UNCHANGED <<probe, pd_addrs, global_client, txns, pool, store, established,
                   first_begin, closed>>

\* do_async_close: *GLOBAL_CLIENT.write() = None
close_client(p) ==
    /\ calls[p].pc = "close_client"
    /\ Free(p, GlobalClientLock, Write)
    /\ global_client' = <<>>
    /\ closed' = TRUE
    /\ Set(p, Return(calls[p], [st |-> "Closed", out |-> <<>>], "none"))
    /\ UNCHANGED <<probe, pd_addrs, txns, pool, store, established, first_begin>>

\* ------------------------------------------- obtaining a transaction handle
\* get_transaction: if has_txn(cid)
get_transaction(p) ==
    /\ calls[p].pc = "get_transaction"
    /\ Free(p, RegistryLock, Read)
    /\ Set(p, [calls[p] EXCEPT !.pc =
                  IF has_txn(txns, calls[p].cid) THEN "get_txn"
                  ELSE "get_txn_client"])
    /\ UNCHANGED <<probe, pd_addrs, global_client, txns, pool, store, established,
                   first_begin, closed>>

AfterTake(verb) ==
    CASE verb = "commit" -> "commit"
      [] verb = "rollback" -> "rollback"
      [] OTHER -> "op"

\* get_txn(cid): remove(&cid).unwrap(), at its three call sites
take_txn(p) ==
    /\ calls[p].pc = "get_txn"
    /\ Free(p, RegistryLock, Write)
    /\ IF has_txn(txns, calls[p].cid)
       THEN /\ txns' = get_txn(txns, calls[p].cid)
            /\ Set(p, [calls[p] EXCEPT !.txn = <<txns[calls[p].cid]>>,
                                       !.taken = TRUE,
                                       !.pc = AfterTake(calls[p].verb)])
       ELSE /\ txns' = txns
            /\ Set(p, Return(calls[p], [st |-> "Panic", out |-> <<>>], "none"))
    /\ UNCHANGED <<probe, pd_addrs, global_client, pool, store, established,
                   first_begin, closed>>

\* get_txn_client that keeps the guard of the pool in a local
\* (`let mut pool = TIKV_TNX_CONN_POOL.lock().unwrap();`) across the awaits
get_txn_client_lock_kept(p) ==
    /\ calls[p].pc = "get_txn_client"
    /\ Free(p, PoolLock, Write)
    /\ IF pool # <<>>
       THEN /\ pool' = Tail(pool)
            /\ Set(p, [calls[p] EXCEPT !.conn = <<Head(pool)>>,
                                       !.pc = "begin_with_options"])
       ELSE /\ pool' = pool
            /\ Set(p, [calls[p] EXCEPT !.guards = {<<PoolLock, Write>>},
                                       !.pc = "get_pd_addrs"])
    /\ UNCHANGED <<probe, pd_addrs, global_client, txns, store, established,
                   first_begin, closed>>

\* get_txn_client: pop_front()
get_txn_client(p) ==
    /\ calls[p].pc = "get_txn_client"
    /\ Free(p, PoolLock, Write)
    /\ IF pool # <<>>
       THEN /\ pool' = Tail(pool)
            /\ Set(p, [calls[p] EXCEPT !.conn = <<Head(pool)>>,
                                       !.pc = "begin_with_options"])
       ELSE /\ pool' = pool
            /\ Set(p, [calls[p] EXCEPT !.pc = "get_pd_addrs"])
    /\ UNCHANGED <<probe, pd_addrs, global_client, txns, store, established,
                   first_begin, closed>>

\* get_pd_addrs without the test of line 93
get_pd_addrs_unchecked(p) ==
    /\ calls[p].pc = "get_pd_addrs"
    /\ Free(p, PdAddrsLock, Read)
    /\ Set(p, [calls[p] EXCEPT !.addrs = pd_addrs,
                               !.pc = "TransactionClient_new"])
    /\ UNCHANGED <<probe, pd_addrs, global_client, txns, pool, store, established,
                   first_begin, closed>>

\* get_pd_addrs inlined so that its guard lives until the call returns
get_pd_addrs_guard_kept(p) ==
    /\ calls[p].pc = "get_pd_addrs"
    /\ Free(p, PdAddrsLock, Read)
    /\ Set(p, IF pd_addrs = <<>>
              THEN Return(calls[p], Err(NotConnected), "none")
              ELSE [calls[p] EXCEPT !.addrs = pd_addrs,
                                    !.guards = {<<PdAddrsLock, Read>>},
                                    !.pc = "TransactionClient_new"])
    /\ UNCHANGED <<probe, pd_addrs, global_client, txns, pool, store, established,
                   first_begin, closed>>

\* get_txn_client: get_pd_addrs()?
get_pd_addrs(p) ==
    /\ calls[p].pc = "get_pd_addrs"
    /\ Free(p, PdAddrsLock, Read)
    /\ Set(p, IF pd_addrs = <<>>
              THEN Return(calls[p], Err(NotConnected), "none")
              ELSE [calls[p] EXCEPT !.addrs = pd_addrs,
                                    !.pc = "TransactionClient_new"])
    /\ UNCHANGED <<probe, pd_addrs, global_client, txns, pool, store, established,
                   first_begin, closed>>

\* get_txn_client: TransactionClient::new(pd_addrs).await?
TransactionClient_new(p) ==
    /\ calls[p].pc = "TransactionClient_new"
    /\ \E ok \in BOOLEAN :
        IF ok
        THEN /\ established < MaxEstablish
             /\ established' = established + 1
             /\ Set(p, [calls[p] EXCEPT
                           !.conn = <<[addr |-> calls[p].addrs[1]]>>,
                           !.pc = "begin_with_options"])
        ELSE /\ established' = established
             /\ Set(p, Return(calls[p], Err(Remote), "none"))
    /\ UNCHANGED <<probe, pd_addrs, global_client, txns, pool, store, first_begin,
                   closed>>

\* conn.begin_with_options(..).await?  in get_transaction and do_async_begin
begin_with_options(p) ==
    /\ calls[p].pc = "begin_with_options"
    /\ \E ok \in BOOLEAN :
        /\ first_begin' = IF first_begin # "none" THEN first_begin
                          ELSE IF ok THEN "ok" ELSE "failed"
        /\ Set(p, IF ok
                  THEN [calls[p] EXCEPT
                           !.txn = <<Handle(calls[p].cid, calls[p].conn[1])>>,
                           !.pc = "put_txn_client"]
                  ELSE Return(calls[p], Err(Remote), "none"))
    /\ UNCHANGED <<probe, pd_addrs, global_client, txns, pool, store, established,
                   closed>>

\* put_txn_client(conn)
put_txn_client(p) ==
    /\ calls[p].pc = "put_txn_client"
    /\ Free(p, PoolLock, Write)
    /\ pool' = Append(pool, calls[p].conn[1])
    /\ Set(p, [calls[p] EXCEPT !.conn = <<>>,
                  !.pc = IF calls[p].verb = "begin" THEN "put_txn" ELSE "op"])
    /\ UNCHANGED <<probe, pd_addrs, global_client, txns, store, established,
                   first_begin, closed>>

\* ------------------------------------------------------ explicit verbs
\* do_async_begin: get_pd_addrs()?
do_async_begin(p, cid) ==
    /\ calls[p] = Idle
    /\ Free(p, PdAddrsLock, Read)
    /\ Set(p, IF pd_addrs = <<>>
              THEN Return(New("begin", cid), Err(NotConnected), "none")
              ELSE [New("begin", cid) EXCEPT !.pc = "begin_has_txn"])
    /\ UNCHANGED <<probe, pd_addrs, global_client, txns, pool, store, established,
                   first_begin, closed>>

\* begin_has_txn without the check of line 119
begin_has_txn_unchecked(p) ==
    /\ calls[p].pc = "begin_has_txn"
    /\ Set(p, [calls[p] EXCEPT !.pc = "get_txn_client"])
    /\ UNCHANGED <<probe, pd_addrs, global_client, txns, pool, store, established,
                   first_begin, closed>>

\* do_async_begin: if has_txn(cid) return Err("Transaction already started")
begin_has_txn(p) ==
    /\ calls[p].pc = "begin_has_txn"
    /\ Free(p, RegistryLock, Read)
    /\ Set(p, IF has_txn(txns, calls[p].cid)
              THEN Return(calls[p], Err(AlreadyStarted), "none")
              ELSE [calls[p] EXCEPT !.pc = "get_txn_client"])
    /\ UNCHANGED <<probe, pd_addrs, global_client, txns, pool, store, established,
                   first_begin, closed>>

\* do_async_begin: put_txn(cid, txn); Ok
begin_put_txn(p) ==
    /\ calls[p].pc = "put_txn"
    /\ Free(p, RegistryLock, Write)
    /\ txns' = put_txn(txns, calls[p].cid, calls[p].txn[1])
    /\ Set(p, Return(calls[p], Ok, "parked"))
    /\ UNCHANGED <<probe, pd_addrs, global_client, pool, store, established,
                   first_begin, closed>>

\* do_async_commit / do_async_rollback: get_pd_addrs()?
do_async_resolve(p, verb, cid) ==
    /\ calls[p] = Idle
    /\ Free(p, PdAddrsLock, Read)
    /\ Set(p, IF pd_addrs = <<>>
              THEN Return(New(verb, cid), Err(NotConnected), "none")
              ELSE [New(verb, cid) EXCEPT !.pc = "resolve_has_txn"])
    /\ UNCHANGED <<probe, pd_addrs, global_client, txns, pool, store, established,
                   first_begin, closed>>

do_async_commit(p, cid) == do_async_resolve(p, "commit", cid)

do_async_rollback(p, cid) == do_async_resolve(p, "rollback", cid)

\* if !has_txn(cid) return Err("Transaction not started")
resolve_has_txn(p) ==
    /\ calls[p].pc = "resolve_has_txn"
    /\ Free(p, RegistryLock, Read)
    /\ Set(p, IF ~has_txn(txns, calls[p].cid)
              THEN Return(calls[p], Err(NotStarted), "none")
              ELSE [calls[p] EXCEPT !.pc = "get_txn"])
    /\ UNCHANGED <<probe, pd_addrs, global_client, txns, pool, store, established,
                   first_begin, closed>>

\* do_async_commit: txn.commit().await?
commit_txn(p) ==
    /\ calls[p].pc = "commit"
    /\ \E ok \in BOOLEAN :
        IF ok
        THEN /\ store' = txn_commit(store, calls[p].txn[1])
             /\ Set(p, Return(calls[p], Ok, "committed"))
        ELSE /\ store' = store
             /\ Set(p, Return(calls[p], Err(Remote), "commit_failed"))
    /\ UNCHANGED <<probe, pd_addrs, global_client, txns, pool, established,
                   first_begin, closed>>

\* do_async_rollback: txn.rollback().await?
rollback_txn(p) ==
    /\ calls[p].pc = "rollback"
    /\ \E ok \in BOOLEAN :
        Set(p, IF ok THEN Return(calls[p], Ok, "rolledback")
               ELSE Return(calls[p], Err(Remote), "rollback_failed"))
    /\ UNCHANGED <<probe, pd_addrs, global_client, txns, pool, store, established,
                   first_begin, closed>>

\* ------------------------------------------------- transactional verbs
\* The first statement of every transactional verb: in_txn = has_txn(cid)
Enter(p, c) ==
    /\ calls[p] = Idle
    /\ Free(p, RegistryLock, Read)
    /\ Set(p, [c EXCEPT !.in_txn = has_txn(txns, c.cid),
                        !.pc = "get_transaction"])
    /\ UNCHANGED <<probe, pd_addrs, global_client, txns, pool, store, established,
                   first_begin, closed>>

do_async_get(p, cid, key) == Enter(p, [New("get", cid) EXCEPT !.key = key])

do_async_put(p, cid, key, val) ==
    Enter(p, [New("put", cid) EXCEPT !.key = key, !.val = val])

\* A remote operation on the handle failed: `?` returns the error and the
\* handle, a local of the call, is dropped.
Failed(c) == Return(c, Err(Remote), "dropped")

\* do_async_get: txn.get(encode_key(DataType::Raw, key)).await?
get_op(p) ==
    /\ calls[p].pc = "op"
    /\ calls[p].verb = "get"
    /\ \E ok \in BOOLEAN :
        Set(p, IF ok
               THEN [calls[p] EXCEPT
                        !.acc = txn_get(calls[p].txn[1],
                                        encode_key(DataTypeRaw, calls[p].key)),
                        !.pc = "finish_txn"]
               ELSE Failed(calls[p]))
    /\ UNCHANGED <<probe, pd_addrs, global_client, txns, pool, store, established,
                   first_begin, closed>>

\* do_async_put: txn.put(encode_key(DataType::Raw, key), val).await?
put_op(p) ==
    /\ calls[p].pc = "op"
    /\ calls[p].verb = "put"
    /\ \E ok \in BOOLEAN :
        Set(p, IF ok
               THEN [calls[p] EXCEPT
                        !.txn = <<txn_put(calls[p].txn[1],
                                          encode_key(DataTypeRaw, calls[p].key),
                                          calls[p].val)>>,
                        !.pc = "finish_txn"]
               ELSE Failed(calls[p]))
    /\ UNCHANGED <<probe, pd_addrs, global_client, txns, pool, store, established,
                   first_begin, closed>>

do_async_batch_get(p, cid, keys) ==
    Enter(p, [New("batch_get", cid) EXCEPT !.keys = keys])

\* do_async_batch_get, lines 245-256: the pairs collected into a map, and for
\* each key k of the call, in order, what the map holds under k
batch_get_values(keys, pairs) ==
    LET ret == [ek \in {pairs[i][1] : i \in DOMAIN pairs} |->
                   (CHOOSE pr \in {pairs[i] : i \in DOMAIN pairs} :
                        pr[1] = ek)[2]]
    IN [i \in 1..Len(keys) |->
           IF keys[i] \in DOMAIN ret THEN <<ret[keys[i]]>> ELSE <<>>]

\* do_async_batch_get: wrap_batch_get(&mut txn, ekeys).await? and the mapping
batch_get_op(p) ==
    /\ calls[p].pc = "op"
    /\ calls[p].verb = "batch_get"
    /\ \E ok \in BOOLEAN :
        \E pairs \in txn_batch_get(calls[p].txn[1],
                                   encode_keys(DataTypeRaw, calls[p].keys)) :
            Set(p, IF ok
                   THEN [calls[p] EXCEPT
                            !.acc = batch_get_values(calls[p].keys, pairs),
                            !.pc = "finish_txn"]
                   ELSE Failed(calls[p]))
    /\ UNCHANGED <<probe, pd_addrs, global_client, txns, pool, store,
                   established, first_begin, closed>>

do_async_scan_range(p, cid, start_key, end_key, limit) ==
    Enter(p, [New("scan_range", cid) EXCEPT
                 !.key = start_key, !.end_key = end_key, !.limit = limit])

\* do_async_scan_range: txn.scan(range, limit as u32).await? and the decoding
scan_range_op(p) ==
    /\ calls[p].pc = "op"
    /\ calls[p].verb = "scan_range"
    /\ \E ok \in BOOLEAN :
        Set(p, IF ok
               THEN LET result ==
                        txn_scan(calls[p].txn[1],
                                 encode_key(DataTypeRaw, calls[p].key),
                                 encode_key(DataTypeRaw, calls[p].end_key),
                                 as_u32(calls[p].limit))
                    IN [calls[p] EXCEPT
                           !.acc = [i \in 1..Len(result) |->
                                       <<decode_key(result[i][1]),
                                         result[i][2]>>],
                           !.pc = "finish_txn"]
               ELSE Failed(calls[p]))
    /\ UNCHANGED <<probe, pd_addrs, global_client, txns, pool, store,
                   established, first_begin, closed>>

\* ------------------------------------------------------------ batch writes
do_async_batch_put(p, cid, kvs) ==
    Enter(p, [New("batch_put", cid) EXCEPT !.kvs = kvs])

do_async_batch_del(p, cid, keys) ==
    Enter(p, [New("batch_del", cid) EXCEPT !.keys = keys])

do_async_exists(p, cid, keys) ==
    Enter(p, [New("exists", cid) EXCEPT !.keys = keys])

\* The loop `for i in 0..len`: the call has done i iterations and goes to
\* finish_txn after the last.
AfterIteration(c, len) ==
    [c EXCEPT !.i = IF c.i + 1 >= len THEN 0 ELSE c.i + 1,
              !.pc = IF c.i + 1 >= len THEN "finish_txn" ELSE "op"]

\* batch_put_op that ignores the result of a put (`let _ = txn.put(..).await;`)
batch_put_op_ignore(p) ==
    /\ calls[p].pc = "op"
    /\ calls[p].verb = "batch_put"
    /\ \E ok \in BOOLEAN :
        LET c == calls[p]
            kv == c.kvs[c.i + 1]
        IN Set(p, IF ok
                  THEN AfterIteration(
                           [c EXCEPT !.txn = <<txn_put(c.txn[1], kv[1], kv[2])>>],
                           Len(c.kvs))
                  ELSE AfterIteration(c, Len(c.kvs)))
    /\ UNCHANGED <<probe, pd_addrs, global_client, txns, pool, store,
                   established, first_begin, closed>>

\* do_async_batch_put, one iteration of lines 266-269:
\* txn.put(kv.key().to_owned(), kv.value().to_owned()).await?
batch_put_op(p) ==
    /\ calls[p].pc = "op"
    /\ calls[p].verb = "batch_put"
    /\ \E ok \in BOOLEAN :
        LET c == calls[p]
            kv == c.kvs[c.i + 1]
        IN Set(p, IF ok
                  THEN AfterIteration(
                           [c EXCEPT !.txn = <<txn_put(c.txn[1], kv[1], kv[2])>>],
                           Len(c.kvs))
                  ELSE Failed(c))
    /\ UNCHANGED <<probe, pd_addrs, global_client, txns, pool, store,
                   established, first_begin, closed>>

\* do_async_batch_del, one iteration of lines 189-192:
\* txn.delete(ekeys[i]).await?
batch_del_op(p) ==
    /\ calls[p].pc = "op"
    /\ calls[p].verb = "batch_del"
    /\ \E ok \in BOOLEAN :
        LET c == calls[p]
            ekeys == encode_keys(DataTypeRaw, c.keys)
        IN Set(p, IF ok
                  THEN AfterIteration(
                           [c EXCEPT !.txn = <<txn_delete(c.txn[1],
                                                          ekeys[c.i + 1])>>],
                           Len(c.keys))
                  ELSE Failed(c))
    /\ UNCHANGED <<probe, pd_addrs, global_client, txns, pool, store,
                   established, first_begin, closed>>

\* do_async_exists: txn.batch_get(ekeys).await? and result.count()
exists_op(p) ==
    /\ calls[p].pc = "op"
    /\ calls[p].verb = "exists"
    /\ \E ok \in BOOLEAN :
        \E pairs \in txn_batch_get(calls[p].txn[1],
                                   encode_keys(DataTypeRaw, calls[p].keys)) :
            Set(p, IF ok
                   THEN [calls[p] EXCEPT !.acc = <<Len(pairs)>>,
                                         !.pc = "finish_txn"]
                   ELSE Failed(calls[p]))
    /\ UNCHANGED <<probe, pd_addrs, global_client, txns, pool, store,
                   established, first_begin, closed>>

\* ------------------------------------------------------------ hash verbs
\* get_client()? at the head of every verb on the non-transactional client
EnterRaw(p, c) ==
    /\ calls[p] = Idle
    /\ Free(p, GlobalClientLock, Read)
    /\ Set(p, IF global_client = <<>>
              THEN Return(c, Err(NotConnected), "none")
              ELSE [c EXCEPT !.pc = "raw_op"])
    /\ UNCHANGED <<probe, pd_addrs, global_client, txns, pool, store,
                   established, first_begin, closed>>

do_async_hget(p, key, field) ==
    EnterRaw(p, [New("hget", 0) EXCEPT !.key = key, !.field = field])

do_async_hput(p, key, field, val) ==
    EnterRaw(p, [New("hput", 0) EXCEPT !.key = key, !.field = field,
                                       !.val = val])

\* do_async_hget: client.get(encode_hash_key(key, field)).await?
hget_op(p) ==
    /\ calls[p].pc = "raw_op"
    /\ calls[p].verb = "hget"
    /\ \E ok \in BOOLEAN :
        Set(p, IF ok
               THEN Return(calls[p],
                           [st |-> "Val",
                            out |-> IF encode_hash_key(calls[p].key,
                                                       calls[p].field)
                                          \in DOMAIN store
                                    THEN <<store[encode_hash_key(
                                              calls[p].key, calls[p].field)]>>
                                    ELSE <<>>],
                           "none")
               ELSE Return(calls[p], Err(Remote), "none"))
    /\ UNCHANGED <<probe, pd_addrs, global_client, txns, pool, store,
                   established, first_begin, closed>>

\* do_async_hput: client.put(encode_hash_key(key, field), val).await?
hput_op(p) ==
    /\ calls[p].pc = "raw_op"
    /\ calls[p].verb = "hput"
    /\ \E ok \in BOOLEAN :
        IF ok
        THEN /\ store' = MapPut(store, encode_hash_key(calls[p].key,
                                                       calls[p].field),
                                calls[p].val)
             /\ Set(p, Return(calls[p], Ok, "none"))
        ELSE /\ store' = store
             /\ Set(p, Return(calls[p], Err(Remote), "none"))
    /\ UNCHANGED <<probe, pd_addrs, global_client, txns, pool, established,
                   first_begin, closed>>

do_async_delete_range(p, start_key, end_key) ==
    EnterRaw(p, [New("delete_range", 0) EXCEPT !.key = start_key,
                                               !.end_key = end_key])

\* do_async_delete_range: client.delete_range(range).await?
delete_range_op(p) ==
    /\ calls[p].pc = "raw_op"
    /\ calls[p].verb = "delete_range"
    /\ \E ok \in BOOLEAN :
        IF ok
        THEN /\ store' =
                  [ek \in {x \in DOMAIN store :
                              ~(/\ LexLeq(encode_key(DataTypeRaw, calls[p].key), x)
                                /\ LexLess(x, encode_key(DataTypeRaw,
                                                         calls[p].end_key)))}
                      |-> store[ek]]
             /\ Set(p, Return(calls[p], [st |-> "Result", out |-> <<>>],
                              "none"))
        ELSE /\ store' = store
             /\ Set(p, Return(calls[p], Err(Remote), "none"))
    /\ UNCHANGED <<probe, pd_addrs, global_client, txns, pool, established,
                   first_begin, closed>>

\* What the verb answers once finish_txn has returned Ok.
Answer(c) ==
    CASE c.verb = "get" -> [st |-> "Val", out |-> c.acc]
      [] c.verb = "batch_get" -> [st |-> "List", out |-> c.acc]
      [] c.verb = "scan_range" -> [st |-> "Pairs", out |-> c.acc]
      [] c.verb = "exists" -> [st |-> "Integer", out |-> c.acc]
      [] OTHER -> Ok

\* finish_txn that drops the result of commit (`let _ = ntxn.commit().await;`)
finish_txn_swallow(p) ==
    /\ calls[p].pc = "finish_txn"
    /\ \E ok \in BOOLEAN :
        IF calls[p].in_txn
        THEN /\ txns' = put_txn(txns, calls[p].cid, calls[p].txn[1])
             /\ store' = store
             /\ Set(p, Return(calls[p], Answer(calls[p]), "parked"))
        ELSE /\ txns' = txns
             /\ store' = IF ok THEN txn_commit(store, calls[p].txn[1]) ELSE store
             /\ Set(p, Return(calls[p], Answer(calls[p]), "committed"))
    /\ UNCHANGED <<probe, pd_addrs, global_client, pool, established, first_begin,
                   closed>>

\* finish_txn that commits whatever in_txn says
finish_txn_commits(p) ==
    /\ calls[p].pc = "finish_txn"
    /\ \E ok \in BOOLEAN :
        IF ok
        THEN /\ txns' = txns
             /\ store' = txn_commit(store, calls[p].txn[1])
             /\ Set(p, Return(calls[p], Answer(calls[p]), "committed"))
        ELSE /\ txns' = txns
             /\ store' = store
             /\ Set(p, Return(calls[p], Err(Remote), "commit_failed"))
    /\ UNCHANGED <<probe, pd_addrs, global_client, pool, established, first_begin,
                   closed>>

\* finish_txn(cid, txn, in_txn) and the verb's answer after it
finish_txn(p) ==
    /\ calls[p].pc = "finish_txn"
    /\ calls[p].in_txn => Free(p, RegistryLock, Write)
    /\ \E ok \in BOOLEAN :
        IF calls[p].in_txn
        THEN /\ txns' = put_txn(txns, calls[p].cid, calls[p].txn[1])
             /\ store' = store
             /\ Set(p, Return(calls[p], Answer(calls[p]), "parked"))
        ELSE IF ok
        THEN /\ txns' = txns
             /\ store' = txn_commit(store, calls[p].txn[1])
             /\ Set(p, Return(calls[p], Answer(calls[p]), "committed"))
        ELSE /\ txns' = txns
             /\ store' = store
             /\ Set(p, Return(calls[p], Err(Remote), "commit_failed"))
    /\ UNCHANGED <<probe, pd_addrs, global_client, pool, established, first_begin,
                   closed>>

\* The caller receives the answer and may issue its next operation.
Receive(p) ==
    /\ calls[p].pc = "done"
    /\ Set(p, Idle)
    /\ UNCHANGED <<probe, pd_addrs, global_client, txns, pool, store, established,
                   first_begin, closed>>

\* --------------------------------------------------------- specifications
Obtain(p) ==
    \/ get_transaction(p)
    \/ take_txn(p)
    \/ get_txn_client(p)
    \/ get_pd_addrs(p)
    \/ TransactionClient_new(p)
    \/ begin_with_options(p)
    \/ put_txn_client(p)

Connect(p) ==
    \/ \E a \in Addrs : do_async_connect(p, a)
    \/ RawClient_new(p)
    \/ connect_client(p)

\* Caller p is the protocol layer's connection p: it issues the operations of
\* session p, one after the other.
Own(p) == Sessions \cap {p}

Next ==
    \E p \in Procs :
        \/ Connect(p)
        \/ Obtain(p)
        \/ \E cid \in Own(p) : Serial(p, cid) /\ do_async_begin(p, cid)
        \/ begin_has_txn(p)
        \/ begin_put_txn(p)
        \/ \E cid \in Own(p) : Serial(p, cid) /\ do_async_commit(p, cid)
        \/ \E cid \in Own(p) :
               Serial(p, cid) /\ do_async_rollback(p, cid)
        \/ resolve_has_txn(p)
        \/ commit_txn(p)
        \/ rollback_txn(p)
        \/ \E cid \in Own(p), k \in CoreKeys :
               Serial(p, cid) /\ do_async_get(p, cid, k)
        \/ \E cid \in Own(p), k \in CoreKeys, v \in Vals :
               Serial(p, cid) /\ do_async_put(p, cid, k, v)
        \/ get_op(p)
        \/ put_op(p)
        \/ finish_txn(p)
        \/ Receive(p)

Spec == Init /\ [][Next]_vars

\* The steps of get_transaction in auto-commit mode.
ObtainNew(p) ==
    \/ get_transaction(p)
    \/ get_txn_client(p)
    \/ get_pd_addrs(p)
    \/ TransactionClient_new(p)
    \/ begin_with_options(p)
    \/ put_txn_client(p)

\* connect, close, one transactional verb and the hash verbs, concurrently
NextClose ==
    \E p \in Procs :
        \/ Connect(p)
        \/ do_async_close(p)
        \/ close_client(p)
        \/ ObtainNew(p)
        \/ \E cid \in Own(p) : do_async_get(p, cid, KeyA)
        \/ get_op(p)
        \/ finish_txn(p)
        \/ do_async_hget(p, KeyA, KeyB)
        \/ hget_op(p)
        \/ Receive(p)

SpecClose == Init /\ [][NextClose]_vars

\* No other call is in flight: operations that do not overlap.
Alone(p) == \A q \in Procs \ {p} : calls[q] = Idle

\* auto-commit operations issued one after the other
NextPool ==
    \E p \in Procs :
        \/ Alone(p) /\ Connect(p)
        \/ ObtainNew(p)
        \/ \E cid \in Own(p), k \in CoreKeys :
               Alone(p) /\ do_async_get(p, cid, k)
        \/ \E cid \in Own(p), k \in CoreKeys, v \in Vals :
               Alone(p) /\ do_async_put(p, cid, k, v)
        \/ get_op(p)
        \/ put_op(p)
        \/ finish_txn(p)
        \/ Receive(p)

SpecPool == Init /\ [][NextPool]_vars

KeyC == <<99>>
BatchKeys == {KeyA, KeyB, KeyC}

\* the key lists of a batch verb
RECURSIVE KeyLists(_)
KeyLists(n) ==
    IF n = 0 THEN {<<>>}
    ELSE KeyLists(n - 1) \cup
         {Append(l, k) : l \in {x \in KeyLists(n - 1) : Len(x) = n - 1},
                         k \in BatchKeys}

\* put and batch_get issued one after the other
NextBatch ==
    \E p \in Procs :
        \/ Alone(p) /\ Connect(p)
        \/ ObtainNew(p)
        \/ \E cid \in Own(p), k \in {KeyA, KeyB}, v \in Vals :
               Alone(p) /\ do_async_put(p, cid, k, v)
        \/ \E cid \in Own(p), keys \in KeyLists(MaxBatch) :
               Alone(p) /\ do_async_batch_get(p, cid, keys)
        \/ put_op(p)
        \/ batch_get_op(p)
        \/ finish_txn(p)
        \/ Receive(p)

SpecBatch == Init /\ [][NextBatch]_vars

\* 1, 2, 10 and 2^32 + 1
Limits == {U64(0, 1), U64(0, 2), U64(0, 10), U64(1, 1)}

\* put and scan_range issued one after the other
NextScan ==
    \E p \in Procs :
        \/ Alone(p) /\ Connect(p)
        \/ ObtainNew(p)
        \/ \E cid \in Own(p), k \in BatchKeys :
               Alone(p) /\ do_async_put(p, cid, k, "v1")
        \/ \E cid \in Own(p), k \in BatchKeys, e \in BatchKeys, n \in Limits :
               Alone(p) /\ do_async_scan_range(p, cid, k, e, n)
        \/ Alone(p) /\ do_async_hput(p, KeyA, KeyB, "v2")
        \/ Alone(p) /\ do_async_delete_range(p, KeyB, KeyC)
        \/ put_op(p)
        \/ hput_op(p)
        \/ delete_range_op(p)
        \/ scan_range_op(p)
        \/ finish_txn(p)
        \/ Receive(p)

SpecScan == Init /\ [][NextScan]_vars

\* The session two callers use at the same time.
Shared == {1}

\* begin, commit and put of one session issued by two callers concurrently
NextRace ==
    \E p \in Procs :
        \/ Alone(p) /\ Connect(p)
        \/ Obtain(p)
        \/ \E cid \in Shared : do_async_begin(p, cid)
        \/ begin_has_txn(p)
        \/ begin_put_txn(p)
        \/ \E cid \in Shared : do_async_commit(p, cid)
        \/ resolve_has_txn(p)
        \/ commit_txn(p)
        \/ \E cid \in Shared, v \in Vals : do_async_put(p, cid, KeyA, v)
        \/ put_op(p)
        \/ finish_txn(p)
        \/ Receive(p)

SpecRace == Init /\ [][NextRace]_vars

\* The steps of a call of caller p after it was issued.
Step(p) ==
    \/ RawClient_new(p)
    \/ connect_client(p)
    \/ Obtain(p)
    \/ begin_has_txn(p)
    \/ begin_put_txn(p)
    \/ resolve_has_txn(p)
    \/ commit_txn(p)
    \/ put_op(p)
    \/ finish_txn(p)

\* The caller whose remote calls may never return, and the others.
Stalling == {1}
Others == Procs \ Stalling

\* begin, put and commit on two sessions
NextLive ==
    \E p \in Procs :
        \/ \E a \in Addrs : Alone(p) /\ do_async_connect(p, a)
        \/ \E cid \in Own(p) : do_async_begin(p, cid)
        \/ \E cid \in Own(p) : do_async_commit(p, cid)
        \/ \E cid \in Own(p) : do_async_put(p, cid, KeyA, "v1")
        \/ Step(p)
        \/ Receive(p)

\* Every step of a call of the other callers is eventually taken, its remote
\* calls included; nothing is assumed of the calls of the stalling caller.
SpecLive ==
    Init /\ [][NextLive]_vars /\ \A p \in Others : WF_vars(Step(p))

\* the key lists of a batch write: one or more keys, none twice
WriteLists ==
    {l \in KeyLists(MaxWrites) :
        /\ Len(l) >= 1
        /\ \A i, j \in DOMAIN l : i # j => l[i] # l[j]}

KvLists == {[i \in DOMAIN l |-> <<l[i], v>>] : l \in WriteLists, v \in Vals}

\* the plain-value verbs issued one after the other
NextPlain ==
    \E p \in Procs :
        \/ Alone(p) /\ Connect(p)
        \/ ObtainNew(p)
        \/ \E cid \in Own(p), k \in {KeyA, KeyB} :
               Alone(p) /\ do_async_put(p, cid, k, "v1")
        \/ \E cid \in Own(p), kvs \in KvLists :
               Alone(p) /\ do_async_batch_put(p, cid, kvs)
        \/ \E cid \in Own(p), keys \in WriteLists :
               Alone(p) /\ do_async_batch_del(p, cid, keys)
        \/ \E cid \in Own(p), k \in {KeyA, KeyB} :
               Alone(p) /\ do_async_get(p, cid, k)
        \/ \E cid \in Own(p), keys \in WriteLists :
               Alone(p) /\ do_async_exists(p, cid, keys)
        \/ put_op(p)
        \/ batch_put_op(p)
        \/ batch_del_op(p)
        \/ get_op(p)
        \/ exists_op(p)
        \/ finish_txn(p)
        \/ Receive(p)

SpecPlain == Init /\ [][NextPlain]_vars

\* the batches of the concurrent callers: the first keys of a, b, c
InOrder(l) == \A i \in DOMAIN l : l[i] = <<KeyA, KeyB, KeyC>>[i]

\* begin, batch_put and batch_del on one session while the other puts
NextWrites ==
    \E p \in Procs :
        \/ Alone(p) /\ Connect(p)
        \/ Obtain(p)
        \/ \E cid \in Own(p) \cap Shared : do_async_begin(p, cid)
        \/ begin_has_txn(p)
        \/ begin_put_txn(p)
        \/ \E cid \in Own(p) \cap Shared,
                kvs \in {x \in KvLists : /\ InOrder([i \in DOMAIN x |-> x[i][1]])
                                          /\ x[1][2] = "v1"} :
               do_async_batch_put(p, cid, kvs)
        \/ \E cid \in Own(p) \cap Shared, keys \in {x \in WriteLists : InOrder(x)} :
               do_async_batch_del(p, cid, keys)
        \/ \E cid \in Own(p) \ Shared : do_async_put(p, cid, KeyA, "v2")
        \/ batch_put_op(p)
        \/ batch_del_op(p)
        \/ put_op(p)
        \/ finish_txn(p)
        \/ Receive(p)

SpecWrites == Init /\ [][NextWrites]_vars

\* No connect has written the address set yet.
Unconnected == pd_addrs = <<>>

\* every verb issued before the address set is written, while a connect of
\* the other caller may be in flight
NextNotConn ==
    \E p \in Procs :
        \/ Connect(p)
        \/ ObtainNew(p)
        \/ \E cid \in Own(p) : Unconnected /\ do_async_begin(p, cid)
        \/ \E cid \in Own(p) : Unconnected /\ do_async_commit(p, cid)
        \/ \E cid \in Own(p) : Unconnected /\ do_async_rollback(p, cid)
        \/ \E cid \in Own(p) : Unconnected /\ do_async_get(p, cid, KeyA)
        \/ \E cid \in Own(p) : Unconnected /\ do_async_put(p, cid, KeyA, "v1")
        \/ \E cid \in Own(p) :
               Unconnected /\ do_async_batch_get(p, cid, <<KeyA>>)
        \/ \E cid \in Own(p) :
               Unconnected /\ do_async_batch_put(p, cid, <<<<KeyA, "v1">>>>)
        \/ \E cid \in Own(p) :
               Unconnected /\ do_async_batch_del(p, cid, <<KeyA>>)
        \/ \E cid \in Own(p) :
               Unconnected /\ do_async_scan_range(p, cid, KeyA, KeyB, U64(0, 1))
        \/ \E cid \in Own(p) : Unconnected /\ do_async_exists(p, cid, <<KeyA>>)
        \/ Unconnected /\ do_async_hget(p, KeyA, KeyB)
        \/ Unconnected /\ do_async_hput(p, KeyA, KeyB, "v1")
        \/ Unconnected /\ do_async_delete_range(p, KeyA, KeyB)
        \/ Unconnected /\ do_async_close(p)
        \/ get_op(p)
        \/ put_op(p)
        \/ batch_get_op(p)
        \/ batch_put_op(p)
        \/ batch_del_op(p)
        \/ scan_range_op(p)
        \/ exists_op(p)
        \/ finish_txn(p)
        \/ Receive(p)

SpecNotConn == Init /\ [][NextNotConn]_vars

\* the address sets of two clusters
TwoAddrs == {"pd1", "pd2"}

\* connects to either cluster and auto-commit operations, one after the other
NextReconnect ==
    \E p \in Procs :
        \/ \E a \in TwoAddrs : Alone(p) /\ do_async_connect(p, a)
        \/ RawClient_new(p)
        \/ connect_client(p)
        \/ ObtainNew(p)
        \/ \E cid \in Own(p) : Alone(p) /\ do_async_get(p, cid, KeyA)
        \/ \E cid \in Own(p) : Alone(p) /\ do_async_put(p, cid, KeyA, "v1")
        \/ get_op(p)
        \/ put_op(p)
        \/ finish_txn(p)
        \/ Receive(p)

SpecReconnect == Init /\ [][NextReconnect]_vars

\* ------------------------------------------------------- the key codec
CodecBytes == {Sep, 97}

\* the byte strings of at most n bytes
RECURSIVE ByteStrings(_)
ByteStrings(n) ==
    IF n = 0 THEN {<<>>}
    ELSE ByteStrings(n - 1) \cup
         {Append(b, c) : b \in {x \in ByteStrings(n - 1) : Len(x) = n - 1},
                         c \in CodecBytes}

\* a plain key, or a field of a hash key
Triples ==
    {[kind |-> DataTypeRaw, key |-> k, field |-> <<>>] :
        k \in ByteStrings(MaxKeyLen)}
    \cup {[kind |-> DataTypeHash, key |-> k, field |-> f] :
             k \in ByteStrings(MaxKeyLen), f \in ByteStrings(MaxKeyLen)}

\* the encoded key a verb stores the triple under
Encode(t) ==
    IF t.kind = DataTypeRaw THEN encode_key(DataTypeRaw, t.key)
    ELSE encode_hash_key(t.key, t.field)

\* the logical key or field a scan decodes the encoded key to
Decode(t, bytes) ==
    IF t.kind = DataTypeRaw THEN decode_key(bytes)
    ELSE decode_hash_field(bytes, t.key)

\* do_async_hscan: the range encode_hash_prefix(key)..encode_hash_prefix_end(key)
InHashRange(bytes, key) ==
    /\ LexLeq(encode_hash_prefix(key), bytes)
    /\ LexLess(bytes, encode_hash_prefix_end(key))

InitCodec ==
    /\ pd_addrs = <<>>
    /\ global_client = <<>>
    /\ txns = EmptyMap
    /\ pool = <<>>
    /\ store = EmptyMap
    /\ calls = [p \in Procs |-> Idle]
    /\ established = 0
    /\ first_begin = "none"
    /\ closed = FALSE
    /\ \E t1 \in Triples, t2 \in Triples :
          probe = [done |-> FALSE, t1 |-> t1, t2 |-> t2, e1 |-> <<>>,
                   e2 |-> <<>>, d1 |-> <<>>, d2 |-> <<>>]

\* the two triples are encoded and the encoded keys decoded
codec(p) ==
    /\ ~probe.done
    /\ probe' = [probe EXCEPT
                    !.done = TRUE,
                    !.e1 = Encode(probe.t1),
                    !.e2 = Encode(probe.t2),
                    !.d1 = Decode(probe.t1, Encode(probe.t1)),
                    !.d2 = Decode(probe.t2, Encode(probe.t2))]
    /\ UNCHANGED <<pd_addrs, global_client, txns, pool, store, calls,
                   established, first_begin, closed>>

NextCodec == \E p \in {1} : codec(p)

SpecCodec == InitCodec /\ [][NextCodec]_vars

\* ------------------------------------------------------------ properties
InFlight(p) == calls[p].pc \notin {"idle", "done"}

\* The step returns call p.
Returns(p) == calls[p].pc # "done" /\ calls'[p].pc = "done"

Plain(key) == encode_key(DataTypeRaw, key)

Lookup(f, ek) == IF ek \in DOMAIN f THEN <<f[ek]>> ELSE <<>>

\* C1 (auto-commit): when a put issued on a session with no parked
\* transaction answers OK, its write is in the committed store and the
\* registry holds no handle for the session; a transaction begun afterwards
\* on any session starts from the committed store, and an auto-commit get
\* answers the committed value its transaction started from.
C1_PutCommitted(p) ==
    (Returns(p) /\ calls'[p].verb = "put" /\ calls'[p].res = Ok
        /\ ~calls'[p].parked)
    => /\ Lookup(store', Plain(calls'[p].key)) = <<calls'[p].val>>
       /\ calls'[p].cid \notin DOMAIN txns'
       /\ calls'[p].fate = "committed"

C1_GetSeesCommitted(p) ==
    /\ (calls[p].pc = "begin_with_options" /\ calls'[p].pc = "put_txn_client")
       => calls'[p].txn[1].snap = store
    /\ (Returns(p) /\ calls'[p].verb = "get" /\ calls'[p].res.st = "Val"
           /\ ~calls'[p].parked)
       => calls'[p].res.out = Lookup(calls[p].txn[1].snap, Plain(calls[p].key))

C1_AutoCommit ==
    [][\A p \in Procs : C1_PutCommitted(p) /\ C1_GetSeesCommitted(p)]_vars

\* A put has answered OK in auto-commit mode and a get issued on the other
\* session has answered the value it wrote.
C1_Witness ==
    \E p \in Procs, g \in Procs :
        /\ p # g
        /\ calls[p].pc = "done" /\ calls[p].verb = "put" /\ calls[p].res = Ok
        /\ ~calls[p].parked
        /\ calls[g].pc = "done" /\ calls[g].verb = "get" /\ ~calls[g].parked
        /\ calls[g].key = calls[p].key
        /\ calls[g].res = [st |-> "Val", out |-> <<calls[p].val>>]

\* C2 (multi-step isolation): inside a transaction opened by begin a put that
\* answers OK leaves its write in the session's parked handle and not in the
\* committed store, a get answers what the session's parked handle holds,
\* every handle is held or parked only for the session it was begun for, and
\* the committed store changes only by the commit of a handle by its own
\* session, either commit(S) or an auto-commit of a handle that was never
\* parked; rollback leaves the store as it is and the handle nowhere.
C2_OwnWrites(p) ==
    /\ (Returns(p) /\ calls'[p].verb = "put" /\ calls'[p].res = Ok
           /\ calls'[p].parked)
       => /\ calls'[p].cid \in DOMAIN txns'
          /\ txn_get(txns'[calls'[p].cid], Plain(calls'[p].key))
                = <<calls'[p].val>>
          /\ store' = store
    /\ (Returns(p) /\ calls'[p].verb = "get" /\ calls'[p].res.st = "Val"
           /\ calls'[p].parked)
       => /\ calls'[p].cid \in DOMAIN txns'
          /\ calls'[p].res.out
                = txn_get(txns'[calls'[p].cid], Plain(calls'[p].key))
          /\ store' = store

C2_Owners ==
    /\ \A s \in DOMAIN txns' : txns'[s].owner = s
    /\ \A p \in Procs :
          calls'[p].txn # <<>> => calls'[p].txn[1].owner = calls'[p].cid

C2_StoreChanges ==
    store' # store =>
        \E p \in Procs :
            /\ Returns(p)
            /\ calls'[p].fate = "committed"
            /\ calls[p].verb = "commit" \/ ~calls[p].parked
            /\ calls[p].txn[1].owner = calls[p].cid
            /\ store' = txn_commit(store, calls[p].txn[1])

C2_Rollback(p) ==
    (Returns(p) /\ calls'[p].verb = "rollback" /\ calls[p].pc = "rollback")
    => /\ store' = store
       /\ calls'[p].cid \notin DOMAIN txns'

C2_Isolation ==
    [][/\ \A p \in Procs : C2_OwnWrites(p) /\ C2_Rollback(p)
       /\ C2_Owners
       /\ C2_StoreChanges]_vars

\* Session p has read its own uncommitted write, which the committed store
\* does not hold, and a get on the other session has answered no value.
C2_Witness ==
    \E p \in Procs, g \in Procs :
        /\ p # g
        /\ calls[p].pc = "done" /\ calls[p].verb = "get" /\ calls[p].parked
        /\ calls[p].res.st = "Val" /\ calls[p].res.out # <<>>
        /\ Lookup(store, Plain(calls[p].key)) = <<>>
        /\ calls[g].pc = "done" /\ calls[g].verb = "get"
        /\ calls[g].key = calls[p].key
        /\ calls[g].res = [st |-> "Val", out |-> <<>>]

\* C3 (misuse of the explicit verbs): a commit or rollback issued while
\* connected on a session with no parked handle answers "Transaction not
\* started", a begin issued on a session with a parked handle answers
\* "Transaction already started", and no step of such a call changes the
\* registry or the pool.
Misuse(c) ==
    \/ c.verb \in {"commit", "rollback"} /\ ~c.parked
    \/ c.verb = "begin" /\ c.parked

MisuseError(c) == IF c.verb = "begin" THEN AlreadyStarted ELSE NotStarted

C3_Misuse ==
    [][\A p \in Procs :
          (InFlight(p) /\ Misuse(calls[p]) /\ calls'[p] # calls[p])
          => /\ calls'[p].pc = "done"
             /\ calls'[p].res = Err(MisuseError(calls[p]))
             /\ txns' = txns
             /\ pool' = pool]_vars

\* A begin on a session whose handle is parked has been refused and the
\* handle is still parked.
C3_Witness ==
    \E p \in Procs :
        /\ calls[p].pc = "done" /\ calls[p].verb = "begin"
        /\ calls[p].res = Err(AlreadyStarted)
        /\ calls[p].cid \in DOMAIN txns

\* C4 (no handle leak): a call that has returned has parked or resolved the
\* handle it had obtained.
C4_NoLeak ==
    \A p \in Procs : calls[p].pc = "done" => calls[p].fate # "dropped"

\* C7 (one live handle per session): a session's handle is parked or held by
\* the session's call in flight, never both and never two, and no park
\* replaces a parked handle.
LiveHandles(s) ==
    (IF s \in DOMAIN txns THEN 1 ELSE 0)
    + Cardinality({p \in Procs : calls[p].txn # <<>> /\ calls[p].cid = s})

C7_AtMostOne == \A s \in Sessions : LiveHandles(s) <= 1

C7_NoOverwrite ==
    \A p \in Procs :
        (Returns(p) /\ calls'[p].fate = "parked")
        => calls[p].cid \notin DOMAIN txns

C7_OneHandle == [](C7_AtMostOne) /\ [][C7_NoOverwrite]_vars

\* The call in flight on a session holds the handle it took from the registry.
C7_Witness ==
    \E p \in Procs :
        /\ calls[p].pc = "finish_txn" /\ calls[p].in_txn
        /\ calls[p].txn # <<>>
        /\ calls[p].cid \notin DOMAIN txns

\* C5 (batch-get order and nulls): the i-th element of the answer of
\* batch_get is the stored value of the i-th key, or no value when the key is
\* not stored.
C5_BatchGet ==
    \A p \in Procs :
        (calls[p].pc = "done" /\ calls[p].verb = "batch_get"
            /\ calls[p].res.st = "List")
        => calls[p].res.out =
              [i \in 1..Len(calls[p].keys) |->
                  Lookup(store, Plain(calls[p].keys[i]))]

\* C6 (close tears everything down): after a close that succeeded and until
\* the next connect that succeeds, the global client is absent, the pool holds
\* no connection, and every verb issued answers "TiKV Not connected".
C6_CloseTearsDown ==
    /\ closed => (global_client = <<>> /\ pool = <<>>)
    /\ \A p \in Procs :
          (calls[p].pc = "done" /\ calls[p].after_close
              /\ calls[p].verb # "connect")
          => calls[p].res = Err(NotConnected)

\* C8 (pool reuse): in a sequence of auto-commit operations that do not
\* overlap and whose first begin succeeded, one connection is established
\* in total.
C8_PoolReuse == first_begin = "ok" => established = 1

\* C9 (scan-range boundary): scan_range(start, end, limit) answers the pairs
\* of the stored plain keys k with start <= k < end, in ascending order of k,
\* the first limit of them, each key in its logical form.
PlainKeys ==
    {decode_key(ek) : ek \in {x \in DOMAIN store : x[1] = TagRaw /\ x[2] = Sep}}

ScanRangeExpected(start_key, end_key, limit) ==
    LET ks == Ascending({k \in PlainKeys :
                            LexLeq(start_key, k) /\ LexLess(k, end_key)})
        n == IF limit.hi = 0 /\ limit.lo < Len(ks) THEN limit.lo ELSE Len(ks)
    IN [i \in 1..n |-> <<ks[i], store[Plain(ks[i])]>>]

C9_ScanRange ==
    \A p \in Procs :
        (calls[p].pc = "done" /\ calls[p].verb = "scan_range"
            /\ calls[p].res.st = "Pairs")
        => calls[p].res.out =
              ScanRangeExpected(calls[p].key, calls[p].end_key, calls[p].limit)

\* C10 (the encoding is injective and invertible): two distinct triples of
\* kind, key and field have distinct encoded keys, an encoded key decodes to
\* the key or field it was made from, and the scan range of a hash key holds
\* the encoded fields of that key and no encoded key of the plain kind or of
\* another hash key.
C10_Codec ==
    probe.done =>
        /\ probe.t1 # probe.t2 => probe.e1 # probe.e2
        /\ probe.d1 = (IF probe.t1.kind = DataTypeRaw THEN probe.t1.key
                       ELSE probe.t1.field)
        /\ probe.t1.kind = DataTypeHash =>
              /\ InHashRange(probe.e1, probe.t1.key)
              /\ InHashRange(probe.e2, probe.t1.key)
                    => (probe.t2.kind = DataTypeHash
                        /\ probe.t2.key = probe.t1.key)

\* C11 (a failed operation keeps the transaction open): when a get or put
\* issued on a session whose handle was parked has failed and returned, the
\* session's handle is parked again.
Transactional == {"get", "put", "batch_get", "batch_put", "batch_del",
                  "scan_range", "exists"}

C11_StaysOpen ==
    \A p \in Procs :
        (calls[p].pc = "done" /\ calls[p].verb \in Transactional
            /\ calls[p].parked /\ calls[p].res.st = "Err")
        => calls[p].cid \in DOMAIN txns

\* C12 (atomic take): a call that goes to take the parked handle of its
\* session either receives the handle or finds none parked and goes on in
\* auto-commit mode; no take aborts on a missing entry.
C12_AtomicTake ==
    \A p \in Procs : calls[p].pc = "done" => calls[p].res.st # "Panic"

\* C19 (only commit commits a session transaction): a get, put, scan or batch
\* verb parks back the handle it took from the registry and never commits
\* it, and commits the handle it began itself and never parks it.
C19_OriginDecides ==
    \A p \in Procs :
        (calls[p].pc = "done" /\ calls[p].verb \in Transactional)
        => /\ calls[p].fate = "parked" => calls[p].taken
           /\ calls[p].fate \in {"committed", "commit_failed"}
                 => ~calls[p].taken

\* C13 (connections are never lost): a call that has returned holds no
\* connection, so once no call is in flight the pool holds every connection
\* that was ever established.
C13_NoLostConn ==
    (\A p \in Procs : ~InFlight(p)) => Len(pool) = established

\* C14 (lock scope): a call holds no guard of the registry, the pool, the
\* address set or the global client between two of its steps, so none while
\* it is suspended on a remote call.
SuspendedCall(c) ==
    \/ c.pc \in {"RawClient_new", "TransactionClient_new",
                 "begin_with_options", "op", "raw_op", "commit", "rollback"}
    \/ c.pc = "finish_txn" /\ ~c.in_txn

Suspended(p) == SuspendedCall(calls[p])

C14_LockScope ==
    \A p \in Procs :
        /\ Suspended(p) => calls[p].guards = {}
        /\ calls[p].guards = {}

\* A call is suspended on begin_with_options, having read the address set
\* and popped the pool, while another is about to take the pool's lock.
C14_Witness ==
    \E p \in Procs, q \in Procs :
        /\ p # q
        /\ Suspended(p) /\ calls[p].pc = "begin_with_options"
        /\ calls[q].pc \in {"get_txn_client", "put_txn_client"}

\* C15 (stall isolation): whatever the calls of another session do, and also
\* when one of them stays suspended on a remote call for ever, a call of a
\* session whose own remote calls return eventually returns.
C15_StallIsolation ==
    \A p \in Others : InFlight(p) ~> (calls[p].pc = "done")

\* A call has committed and returned while the call of the other session is
\* suspended on the establishment of a connection.
C15_Witness ==
    \E p \in Others, q \in Stalling :
        /\ calls[q].pc = "TransactionClient_new"
        /\ calls[p].pc = "done" /\ calls[p].verb = "commit"
        /\ calls[p].res = Ok

\* C16 (one encoding for the plain-value verbs): put and batch_put leave
\* their values under the plain-kind encoding of the logical keys, batch_del
\* removes the keys under that encoding, and get and exists answer what the
\* store holds under it.
CountStored(keys) ==
    Cardinality({k \in {keys[i] : i \in DOMAIN keys} :
                    Plain(k) \in DOMAIN store})

C16_Uniform ==
    \A p \in Procs :
        LET c == calls[p] IN
        (c.pc = "done" /\ ~c.parked /\ c.res.st # "Err") =>
            /\ c.verb = "put" => Lookup(store, Plain(c.key)) = <<c.val>>
            /\ c.verb = "batch_put" =>
                  \A i \in DOMAIN c.kvs :
                      Lookup(store, Plain(c.kvs[i][1])) = <<c.kvs[i][2]>>
            /\ c.verb = "batch_del" =>
                  \A i \in DOMAIN c.keys :
                      Lookup(store, Plain(c.keys[i])) = <<>>
            /\ c.verb = "get" => c.res.out = Lookup(store, Plain(c.key))
            /\ c.verb = "exists" => c.res.out = <<CountStored(c.keys)>>

\* C18 (atomic outcome of auto-commit batches): a batch_put or batch_del
\* issued on a session with no parked handle changes the committed store in
\* one step only, the step in which it answers OK, and that step commits a
\* write for every key of the batch; when it answers an error the store is
\* as it was and the handle is neither parked nor held, so that no write of
\* the batch can become visible later.
\* the key as passed or in its plain-kind encoding (see C16)
WrittenKeys(k) == {k, Plain(k)}

AllWritten(c, buf) ==
    /\ c.verb = "batch_put" =>
          \A i \in DOMAIN c.kvs :
              \E ek \in WrittenKeys(c.kvs[i][1]) \cap DOMAIN buf :
                  buf[ek] = c.kvs[i][2]
    /\ c.verb = "batch_del" =>
          \A i \in DOMAIN c.keys :
              \E ek \in WrittenKeys(c.keys[i]) \cap DOMAIN buf :
                  buf[ek] = Del

C18_Call(p) ==
    (InFlight(p) /\ calls'[p] # calls[p] /\ ~calls[p].parked
        /\ calls[p].verb \in {"batch_put", "batch_del"})
    => IF Returns(p) /\ calls'[p].res = Ok
       THEN /\ calls'[p].fate = "committed"
            /\ AllWritten(calls[p], calls[p].txn[1].buf)
            /\ store' = txn_commit(store, calls[p].txn[1])
       ELSE /\ store' = store
            /\ Returns(p) =>
                  /\ calls'[p].res.st = "Err"
                  /\ calls'[p].cid \notin DOMAIN txns'

C18_AtomicBatch == [][\A p \in Procs : C18_Call(p)]_vars

\* A batch_put of two pairs has answered OK in auto-commit mode and both
\* writes are in the committed store.
C18_Witness ==
    \E p \in Procs :
        /\ calls[p].pc = "done" /\ calls[p].verb = "batch_put"
        /\ ~calls[p].parked /\ calls[p].res = Ok
        /\ Len(calls[p].kvs) = 2
        /\ \A i \in DOMAIN calls[p].kvs :
              \E ek \in WrittenKeys(calls[p].kvs[i][1]) \cap DOMAIN store :
                  store[ek] = calls[p].kvs[i][2]

\* C17 (not-connected errors leave the state untouched): as long as no
\* connect has written the address set, a step of a call of any other verb
\* changes neither the registry, the pool, the address set, the global
\* client nor the store, suspends the call on no remote call, and when it
\* returns the call it answers "TiKV Not connected"; and a connect whose
\* client creation fails leaves the address set and the global client as
\* they were.
C17_Verb(p) ==
    (Unconnected /\ calls'[p] # calls[p] /\ calls'[p].verb # "connect"
        /\ calls'[p].pc # "idle")
    => /\ UNCHANGED <<txns, pool, pd_addrs, global_client, store, established>>
       /\ ~SuspendedCall(calls'[p])
       /\ calls'[p].pc = "done" => calls'[p].res = Err(NotConnected)

C17_FailedConnect(p) ==
    (Returns(p) /\ calls'[p].verb = "connect" /\ calls'[p].res.st = "Err")
    => UNCHANGED <<pd_addrs, global_client, txns, pool>>

C17_NotConnected ==
    [][\A p \in Procs : C17_Verb(p) /\ C17_FailedConnect(p)]_vars

\* A get has gone through the registry and the pool and answered "TiKV Not
\* connected", a connect has failed, and nothing is configured.
C17_Witness ==
    \E p \in Procs, q \in Procs :
        /\ Unconnected /\ global_client = <<>>
        /\ calls[p].pc = "done" /\ calls[p].verb = "get"
        /\ calls[p].res = Err(NotConnected)
        /\ calls[q].pc = "done" /\ calls[q].verb = "connect"
        /\ calls[q].res = Err(Remote)

\* C20 (reconnect uses the new address set): with operations that do not
\* overlap, a transaction is begun on a connection that was established to
\* the address set of the latest connect that succeeded.
C20_NewAddrs ==
    \A p \in Procs :
        calls[p].pc = "begin_with_options"
        => <<calls[p].conn[1].addr>> = pd_addrs

====
